---- MODULE Spec2Model ----
(***************************************************************************)
(* A model of combinatorics.js (js-combinatorics 0.6.1): the exact         *)
(* counting functions permutation / combination / factorial, the           *)
(* factoradic converter, and the five enumerable objects Permutation,      *)
(* Combination, BaseN, PowerSet and CartesianProduct with their nth.       *)
(*                                                                         *)
(* JavaScript integers are modelled exactly.  A value is a record          *)
(* [t, neg, mag]: t is "number" or "bigint", neg the sign, and mag the     *)
(* magnitude as a little-endian sequence of limbs in base 2^15 with no     *)
(* leading zero limb (zero is <<>>).  Number arithmetic is exact below     *)
(* 2^53, which covers every Number the model computes with; the bitwise    *)
(* Number operators go through ToInt32 as the language defines them.       *)
(***************************************************************************)
EXTENDS Integers, Sequences, FiniteSets, TLC

\* ------------------------------------------------------------------------
\* Magnitudes: natural numbers of any size
\* ------------------------------------------------------------------------

\* one limb holds 15 bits, so that a product of two limbs stays a machine integer
Base == 2^15

RECURSIVE Trim(_)
Trim(m) == IF m = <<>> THEN <<>>
           ELSE IF m[Len(m)] = 0 THEN Trim(SubSeq(m, 1, Len(m) - 1))
           ELSE m

RECURSIVE MFromInt(_)
MFromInt(x) == IF x = 0 THEN <<>> ELSE <<x % Base>> \o MFromInt(x \div Base)

RECURSIVE MToInt(_)
MToInt(m) == IF m = <<>> THEN 0 ELSE Head(m) + Base * MToInt(Tail(m))

Limb(m, i) == IF i <= Len(m) THEN m[i] ELSE 0

Max(a, b) == IF a >= b THEN a ELSE b

Min(a, b) == IF a <= b THEN a ELSE b

RECURSIVE MCmpFrom(_, _, _)
MCmpFrom(a, b, i) ==
    IF i = 0 THEN 0
    ELSE IF Limb(a, i) < Limb(b, i) THEN -1
    ELSE IF Limb(a, i) > Limb(b, i) THEN 1
    ELSE MCmpFrom(a, b, i - 1)

MCmp(a, b) == MCmpFrom(a, b, Max(Len(a), Len(b)))

RECURSIVE MAddC(_, _, _, _)
MAddC(a, b, i, c) ==
    IF i > Max(Len(a), Len(b)) THEN (IF c = 0 THEN <<>> ELSE <<c>>)
    ELSE LET s == Limb(a, i) + Limb(b, i) + c
         IN  <<s % Base>> \o MAddC(a, b, i + 1, s \div Base)

MAdd(a, b) == MAddC(a, b, 1, 0)

RECURSIVE MSubB(_, _, _, _)
MSubB(a, b, i, c) ==
    IF i > Len(a) THEN <<>>
    ELSE LET s == Limb(a, i) - Limb(b, i) - c
         IN  <<s % Base>> \o MSubB(a, b, i + 1, IF s < 0 THEN 1 ELSE 0)

\* a - b for a >= b
MSub(a, b) == Trim(MSubB(a, b, 1, 0))

RECURSIVE MMulSmallC(_, _, _, _)
MMulSmallC(a, k, i, c) ==
    IF i > Len(a) THEN (IF c = 0 THEN <<>> ELSE <<c>>)
    ELSE LET s == a[i] * k + c
         IN  <<s % Base>> \o MMulSmallC(a, k, i + 1, s \div Base)

\* a * k for one limb k
MMulSmall(a, k) == IF k = 0 THEN <<>> ELSE MMulSmallC(a, k, 1, 0)

MShiftLimb(a) == IF a = <<>> THEN <<>> ELSE <<0>> \o a

RECURSIVE MMulLong(_, _)
MMulLong(a, b) ==
    IF b = <<>> THEN <<>>
    ELSE MAdd(MMulSmall(a, Head(b)), MShiftLimb(MMulLong(a, Tail(b))))

\* two one-limb operands have a product below 2^30
MMul(a, b) ==
    IF Len(a) <= 1 /\ Len(b) <= 1 THEN MFromInt(MToInt(a) * MToInt(b))
    ELSE MMulLong(a, b)

\* the largest q in lo..hi with b*q <= r (b*lo <= r is given)
RECURSIVE QDigit(_, _, _, _)
QDigit(r, b, lo, hi) ==
    IF lo = hi THEN lo
    ELSE LET mid == (lo + hi + 1) \div 2
         IN  IF MCmp(MMulSmall(b, mid), r) <= 0
             THEN QDigit(r, b, mid, hi)
             ELSE QDigit(r, b, lo, mid - 1)

\* long division of a by b # 0, from the most significant limb of a down.
\* s holds the limb i to take next, the quotient limbs found so far q
\* (little-endian, untrimmed) and the remainder r
RECURSIVE MDivLoop(_, _, _)
MDivLoop(a, b, s) ==
    IF s.i = 0 THEN s
    ELSE LET r == Trim(<<a[s.i]>> \o s.r)
             q == QDigit(r, b, 0, Base - 1)
         IN  MDivLoop(a, b, [i |-> s.i - 1, q |-> <<q>> \o s.q,
                             r |-> MSub(r, MMulSmall(b, q))])

MDivStep(a, b) == MDivLoop(a, b, [i |-> Len(a), q |-> <<>>, r |-> <<>>])

\* operands of at most two limbs are below 2^30: machine arithmetic is exact
Short(a, b) == Len(a) <= 2 /\ Len(b) <= 2

MDiv(a, b) ==
    IF Short(a, b) THEN MFromInt(MToInt(a) \div MToInt(b))
    ELSE Trim(MDivStep(a, b).q)

MMod(a, b) ==
    IF Short(a, b) THEN MFromInt(MToInt(a) % MToInt(b))
    ELSE MDivStep(a, b).r

\* bit j (0-based) of a magnitude
MBit(m, j) == (Limb(m, (j \div 15) + 1) \div 2^(j % 15)) % 2

\* the bits lo .. hi (0-based) of a magnitude, the lowest first
RECURSIVE MBitsFrom(_, _, _)
MBitsFrom(m, lo, hi) ==
    IF lo > hi THEN <<>>
    ELSE IF lo = hi THEN <<MBit(m, lo)>>
    ELSE LET mid == (lo + hi) \div 2
         IN  MBitsFrom(m, lo, mid) \o MBitsFrom(m, mid + 1, hi)

\* the low w bits of a magnitude, bit j at position j+1
MBits(m, w) == MBitsFrom(m, 0, w - 1)

\* the number whose bits are b[lo] .. b[hi], the lowest first
RECURSIVE BitsValue(_, _, _)
BitsValue(b, lo, hi) ==
    IF lo > hi THEN 0
    ELSE IF lo = hi THEN b[lo]
    ELSE LET mid == (lo + hi) \div 2
         IN  BitsValue(b, lo, mid) + 2^(mid + 1 - lo) * BitsValue(b, mid + 1, hi)

\* limb k (0-based) of the magnitude with the bits b
LimbOfBits(b, k) == BitsValue(b, 15 * k + 1, Min(15 * k + 15, Len(b)))

MFromBits(b) == Trim([k \in 1..((Len(b) + 14) \div 15) |-> LimbOfBits(b, k - 1)])

\* 2^n
RECURSIVE MPow2(_)
MPow2(n) == IF n < 15 THEN <<2^n>> ELSE <<0>> \o MPow2(n - 15)

\* ------------------------------------------------------------------------
\* Signed integers [neg, mag] and JavaScript integer values [t, neg, mag]
\* ------------------------------------------------------------------------

Z(neg, mag) == [neg |-> neg /\ mag # <<>>, mag |-> mag]

ZInt(x) == IF x < 0 THEN Z(TRUE, MFromInt(-x)) ELSE Z(FALSE, MFromInt(x))

ZToInt(a) == IF a.neg THEN -MToInt(a.mag) ELSE MToInt(a.mag)

ZNeg(a) == Z(~a.neg, a.mag)

ZCmp(a, b) ==
    IF a.neg # b.neg THEN (IF a.neg THEN -1 ELSE 1)
    ELSE IF a.neg THEN MCmp(b.mag, a.mag)
    ELSE MCmp(a.mag, b.mag)

ZLt(a, b) == ZCmp(a, b) < 0

ZLe(a, b) == ZCmp(a, b) <= 0

ZIsZero(a) == a.mag = <<>>

ZAdd(a, b) ==
    IF a.neg = b.neg THEN Z(a.neg, MAdd(a.mag, b.mag))
    ELSE IF MCmp(a.mag, b.mag) >= 0 THEN Z(a.neg, MSub(a.mag, b.mag))
    ELSE Z(b.neg, MSub(b.mag, a.mag))

ZSub(a, b) == ZAdd(a, ZNeg(b))

ZMul(a, b) == Z(a.neg # b.neg, MMul(a.mag, b.mag))

\* BigInt / : the quotient truncated toward zero
ZDiv(a, b) == Z(a.neg # b.neg, MDiv(a.mag, b.mag))

\* BigInt % : the remainder takes the sign of the dividend
ZRem(a, b) == Z(a.neg, MMod(a.mag, b.mag))

Num(z) == [t |-> "number", neg |-> z.neg, mag |-> z.mag]

Big(z) == [t |-> "bigint", neg |-> z.neg, mag |-> z.mag]

Tagged(t, z) == [t |-> t, neg |-> z.neg, mag |-> z.mag]

NumInt(x) == Num(ZInt(x))

BigOfInt(x) == Big(ZInt(x))

\* the Number values that are not whole numbers, which only / forms: NaN,
\* Infinity and -Infinity, and a fraction, of which the integer part (the
\* value truncated toward zero) is kept
NaN == [t |-> "nan", neg |-> FALSE, mag |-> <<>>]

Infinity(neg) == [t |-> "infinity", neg |-> neg, mag |-> <<>>]

Fraction(z) == [t |-> "fraction", neg |-> z.neg, mag |-> z.mag]

\* typeof: "bigint", or "number" for every Number value
TypeOf(t) == IF t = "bigint" THEN "bigint" ELSE "number"

\* _BI = BigInt: the same integer as a bigint
BI(v) == Big(v)

\* Number(v)
ToNumber(v) == Num(v)

\* Number.MAX_SAFE_INTEGER = 2^53 - 1
MAX_SAFE_INTEGER == Z(FALSE, MSub(MPow2(53), <<1>>))

\* p <= Number.MAX_SAFE_INTEGER ? Number(p) : p
Downcast(p) == IF ZLe(p, MAX_SAFE_INTEGER) THEN ToNumber(p) ELSE p

\* ------------------------------------------------------------------------
\* Bitwise operators: two's complement over w bits. A Number operand goes
\* through ToInt32 (w = 32, the value modulo 2^32 read as signed); a BigInt
\* operand is taken at a width that holds both operands and a sign bit.
\* ------------------------------------------------------------------------

Flip(b) == [i \in 1..Len(b) |-> 1 - b[i]]

AndBits(x, y) == [i \in 1..Len(x) |-> x[i] * y[i]]

OrBits(x, y) == [i \in 1..Len(x) |-> IF x[i] + y[i] > 0 THEN 1 ELSE 0]

\* the w bits of an operand. ToInt32 takes NaN and the infinities as 0 and
\* a fraction as its integer part
TwosBits(a, w) ==
    IF a.t \in {"nan", "infinity"} THEN [i \in 1..w |-> 0]
    ELSE IF a.neg THEN Flip(MBits(MSub(a.mag, <<1>>), w))
    ELSE MBits(a.mag, w)

FromTwos(b) ==
    IF b[Len(b)] = 1 THEN Z(TRUE, MAdd(MFromBits(Flip(b)), <<1>>))
    ELSE Z(FALSE, MFromBits(b))

\* the width of ToInt32, which the Number operators & and >> apply
WordBits == 32

Width(a, b) ==
    IF a.t = "bigint" THEN 15 * Max(Len(a.mag), Len(b.mag)) + 1 ELSE WordBits

\* a & b
JSAnd(a, b) ==
    LET w == Width(a, b)
        x == TwosBits(a, w)
        y == TwosBits(b, w)
    IN  Tagged(TypeOf(a.t), FromTwos(AndBits(x, y)))

\* a | b
JSOr(a, b) ==
    LET w == Width(a, b)
        x == TwosBits(a, w)
        y == TwosBits(b, w)
    IN  Tagged(TypeOf(a.t), FromTwos(OrBits(x, y)))

\* a >> 1 (sign-propagating)
JSShr1(a) ==
    LET w == Width(a, a)
        x == TwosBits(a, w)
    IN  Tagged(TypeOf(a.t), FromTwos([i \in 1..w |-> IF i < w THEN x[i + 1] ELSE x[w]]))

\* same-type arithmetic; the result keeps the operands' type
JSAdd(a, b) == Tagged(a.t, ZAdd(a, b))

JSSub(a, b) == Tagged(a.t, ZSub(a, b))

JSMul(a, b) == Tagged(a.t, ZMul(a, b))

\* a / b: BigInt division truncates toward zero; Number division gives the
\* quotient when it is whole, NaN for 0 / 0, an infinity for x / 0 and a
\* fraction otherwise
JSDiv(a, b) ==
    LET q == ZDiv(a, b)
    IN  IF a.t = "bigint" THEN Tagged(a.t, q)
        ELSE IF ZIsZero(b) THEN (IF ZIsZero(a) THEN NaN ELSE Infinity(a.neg))
        ELSE IF ZIsZero(ZRem(a, b)) THEN Tagged(a.t, q)
        ELSE Fraction(q)

JSRem(a, b) == Tagged(a.t, ZRem(a, b))

\* -a
JSNeg(a) == Tagged(a.t, ZNeg(a))

\* ------------------------------------------------------------------------
\* Outcomes of a call
\* ------------------------------------------------------------------------

Return(v) == [kind |-> "return", value |-> v]

Throw(e) == [kind |-> "throw", error |-> e]

\* ------------------------------------------------------------------------
\* Exact arithmetic
\* ------------------------------------------------------------------------

\* while (k--) p *= n--; on the loop's variables s = [n, k, p]
RECURSIVE PermLoop(_)
PermLoop(s) ==
    IF ZIsZero(s.k) THEN s.p
    ELSE PermLoop([n |-> JSSub(s.n, BigOfInt(1)), k |-> JSSub(s.k, BigOfInt(1)),
                   p |-> JSMul(s.p, s.n)])

permutation(n, k) ==
    Downcast(PermLoop([n |-> BI(n), k |-> BI(k), p |-> BigOfInt(1)]))

\* _BI(P(n, k) / P(k, k)): the operator / throws a TypeError when one
\* operand is a bigint and the other a number; BigInt() throws a RangeError
\* on a Number that is not whole
combination(n, k) ==
    LET Pnk == permutation(n, k)
        Pkk == permutation(k, k)
        q   == JSDiv(Pnk, Pkk)
    IN  IF Pnk.t # Pkk.t THEN Throw("TypeError")
        ELSE IF q.t \notin {"number", "bigint"} THEN Throw("RangeError")
        ELSE Return(Downcast(BI(q)))

factorial(n) == permutation(n, n)

\* ------------------------------------------------------------------------
\* Factoradic converter. l is the digit count (a small Number); the digits
\* array d, with d[i] at position i+1, is returned.
\* ------------------------------------------------------------------------

\* for (l = 1; bf < bn; bf *= _BI(++l));
RECURSIVE InferWidth(_, _, _)
InferWidth(bn, bf, l) ==
    IF ZLt(bf, bn) THEN InferWidth(bn, JSMul(bf, BigOfInt(l + 1)), l + 1)
    ELSE [bf |-> bf, l |-> l]

\* the digit loop without bn %= bf
RECURSIVE DigitLoopKeepsValue(_)
DigitLoopKeepsValue(s) ==
    IF s.l = 0 THEN s.digits
    ELSE DigitLoopKeepsValue(
             [bn |-> s.bn, bf |-> JSDiv(s.bf, BigOfInt(s.l)), l |-> s.l - 1,
              digits |-> [s.digits EXCEPT ![s.l + 1] = ZToInt(JSDiv(s.bn, s.bf))]])

\* for (; l; bf /= _BI(l--)) { digits[l] = Math.floor(Number(bn / bf)); bn %= bf }
\* on the loop's variables s = [bn, bf, l, digits]
RECURSIVE DigitLoop(_)
DigitLoop(s) ==
    IF s.l = 0 THEN s.digits
    ELSE DigitLoop(
             [bn |-> JSRem(s.bn, s.bf), bf |-> JSDiv(s.bf, BigOfInt(s.l)),
              l |-> s.l - 1,
              digits |-> [s.digits EXCEPT ![s.l + 1] = ZToInt(JSDiv(s.bn, s.bf))]])

factoradic(n, l) ==
    LET bn == BI(n)
        w  == IF l = 0
              THEN LET f == InferWidth(bn, BigOfInt(1), 1)
                   IN  IF ZLt(bn, f.bf)
                       THEN [bf |-> JSDiv(f.bf, BigOfInt(f.l)), l |-> f.l - 1]
                       ELSE f
              ELSE [bf |-> BI(factorial(NumInt(l))), l |-> l]
    IN  DigitLoop([bn |-> bn, bf |-> w.bf, l |-> w.l,
                   digits |-> [i \in 1..(w.l + 1) |-> 0]])

\* ------------------------------------------------------------------------
\* Arrays. A JavaScript array is a sequence; index d is position d+1.
\* ------------------------------------------------------------------------

\* the value undefined, as an array element
Undefined == -1

\* arr[d]
At(arr, d) == IF 0 <= d /\ d < Len(arr) THEN arr[d + 1] ELSE Undefined

\* source.splice(start, 1): the position removed, after clamping
SpliceStart(source, start) ==
    IF start < 0 THEN Max(Len(source) + start, 0) ELSE Min(start, Len(source))

\* source.splice(start, 1)[0]
SpliceTaken(source, start) == At(source, SpliceStart(source, start))

\* source after source.slice(start, start + 1): nothing is removed
SpliceRestKeeps(source, start) == source

\* source after source.splice(start, 1)
SpliceRest(source, start) ==
    LET r == SpliceStart(source, start)
    IN  IF r < Len(source)
        THEN SubSeq(source, 1, r) \o SubSeq(source, r + 2, Len(source))
        ELSE source

\* ------------------------------------------------------------------------
\* Permutation
\* ------------------------------------------------------------------------

\* this.size = 0 < size ? size : this.seed.length
PermutationSizeNoUpperCheck(size, n) == IF 0 < size THEN size ELSE n

\* this.size = 0 < size && size <= this.seed.length ? size : this.seed.length
PermutationSize(size, n) == IF 0 < size /\ size <= n THEN size ELSE n

\* new Permutation(seed, size), the seed copy stored at reference own
Permutation(seed, size, own) ==
    LET sz == PermutationSize(size, Len(seed))
    IN  [kind |-> "Permutation", seed |-> own, size |-> sz,
         length |-> permutation(NumInt(Len(seed)), NumInt(sz))]

\* for (let i = this.seed.length - 1; offset <= i; i--)
\*     result.push(source.splice(digits[i], 1)[0]);
RECURSIVE PickLoop(_, _, _, _)
PickLoop(source, digits, i, offset) ==
    IF i < offset THEN <<>>
    ELSE <<SpliceTaken(source, digits[i + 1])>>
         \o PickLoop(SpliceRest(source, digits[i + 1]), digits, i - 1, offset)

Permutation_nth(o, h, n) ==
    LET seed   == h[o.seed]
        offset == Len(seed) - o.size
        skip   == factorial(NumInt(offset))
        digits == factoradic(JSMul(BI(n), BI(skip)), Len(seed))
    IN  Return(PickLoop(seed, digits, Len(seed) - 1, offset))

\* ------------------------------------------------------------------------
\* Combination
\* ------------------------------------------------------------------------

\* new Combination(seed, size): an outcome, since combination() may throw
Combination(seed, size, own) ==
    LET perm   == Permutation(seed, size, own)
        length == combination(NumInt(Len(seed)), NumInt(perm.size))
    IN  IF length.kind = "throw" THEN length
        ELSE Return([kind |-> "Combination", perm |-> perm, size |-> perm.size,
                     length |-> length.value])

findIndex(n) ==
    LET one == Tagged(n.t, ZInt(1))
        two == Tagged(n.t, ZInt(2))
    IN  IF ZLe(n, two) THEN n
        ELSE LET p == JSSub(n, one)
                 s == JSAnd(p, JSNeg(p))
                 r == JSAdd(p, s)
                 t == JSAnd(r, JSNeg(r))
                 m == JSSub(JSShr1(JSDiv(t, s)), one)
             IN  JSOr(r, m)

Combination_nth(o, h, n) == Permutation_nth(o.perm, h, findIndex(n))

\* ------------------------------------------------------------------------
\* BaseN
\* ------------------------------------------------------------------------

\* Array(size).fill(_BI(base)).reduce((a, v) => a * v), for size >= 1
RECURSIVE PowerOf(_, _)
PowerOf(base, size) ==
    IF size = 1 THEN base ELSE JSMul(PowerOf(base, size - 1), base)

\* new BaseN(seed, size): reduce of an empty array without an initial value
\* throws a TypeError
BaseN(seed, size, own) ==
    IF size = 0 THEN Throw("TypeError")
    ELSE Return([kind |-> "BaseN", seed |-> own, size |-> size, base |-> Len(seed),
                 length |-> Downcast(PowerOf(BigOfInt(Len(seed)), size))])

\* for (let i = 0; i < this.size; i++) { d = n % base; push seed[d]; n -= d; n /= base }
RECURSIVE BaseNLoop(_, _, _, _, _)
BaseNLoop(seed, size, base, i, n) ==
    IF ~(i < size) THEN <<>>
    ELSE LET d == JSRem(n, base)
         IN  <<At(seed, ZToInt(d))>>
             \o BaseNLoop(seed, size, base, i + 1, JSDiv(JSSub(n, d), base))

BaseN_nth(o, h, n) ==
    IF ZLt(n, ZInt(0)) THEN Throw("RangeError")
    ELSE IF ZLe(o.length, n) THEN Throw("RangeError")
    ELSE Return(BaseNLoop(h[o.seed], o.size, Tagged(n.t, ZInt(o.base)), 0, n))

\* ------------------------------------------------------------------------
\* CartesianProduct
\* ------------------------------------------------------------------------

\* this.seed.reduce((a, v) => a * _BI(v.length), _BI(1))
RECURSIVE ProductOfLengths(_, _)
ProductOfLengths(seeds, i) ==
    IF i = 0 THEN BigOfInt(1)
    ELSE JSMul(ProductOfLengths(seeds, i - 1), BigOfInt(Len(seeds[i])))

\* new CartesianProduct(...args), the copies stored at the references owns
CartesianProduct(args, owns) ==
    [kind |-> "CartesianProduct", seed |-> owns, size |-> Len(args),
     length |-> Downcast(ProductOfLengths(args, Len(args)))]

\* the loop without n /= b
RECURSIVE CartesianLoopNoDivide(_, _, _, _)
CartesianLoopNoDivide(o, h, i, n) ==
    IF ~(i < o.size) THEN <<>>
    ELSE LET seed == h[o.seed[i + 1]]
             b    == Tagged(n.t, ZInt(Len(seed)))
             d    == JSRem(n, b)
         IN  <<At(seed, ZToInt(d))>>
             \o CartesianLoopNoDivide(o, h, i + 1, JSSub(n, d))

\* for (let i = 0; i < this.size; i++) { ... }
RECURSIVE CartesianLoop(_, _, _, _)
CartesianLoop(o, h, i, n) ==
    IF ~(i < o.size) THEN <<>>
    ELSE LET seed == h[o.seed[i + 1]]
             b    == Tagged(n.t, ZInt(Len(seed)))
             d    == JSRem(n, b)
         IN  <<At(seed, ZToInt(d))>>
             \o CartesianLoop(o, h, i + 1, JSDiv(JSSub(n, d), b))

CartesianProduct_nth(o, h, n) ==
    IF ZLt(n, ZInt(0)) THEN Throw("RangeError")
    ELSE IF ZLe(o.length, n) THEN Throw("RangeError")
    ELSE Return(CartesianLoop(o, h, 0, n))

\* ------------------------------------------------------------------------
\* PowerSet. The constructor keeps the caller's array itself (this.seed =
\* seed), so the object's seed is the reference the caller holds.
\* ------------------------------------------------------------------------

\* a loop of PowerSet.nth that its test can no longer end is followed pass
\* by pass until i reaches MaxFollowed; its later passes, which all do the
\* same, are taken together
MaxFollowed == 40

\* the most elements an array holds by the language, 2^32 - 1: a push beyond
\* throws RangeError (Invalid array length). A runtime whose memory runs out
\* first fails the push earlier, by the same throw or by ending the process
ArrayLimit == Z(FALSE, MSub(MPow2(WordBits), <<1>>))

\* new PowerSet(seed): length = _BI(1) << _BI(this.seed.length)
PowerSet(seed, ref) ==
    [kind |-> "PowerSet", seed |-> ref,
     length |-> Downcast(Big(Z(FALSE, MPow2(Len(seed)))))]

\* the range checks of nth and the loop's initialisation: a throw, or the
\* loop's variables
PowerSet_enter(o, n) ==
    IF ZLt(n, ZInt(0)) THEN Throw("RangeError")
    ELSE IF ZLe(o.length, n) THEN Throw("RangeError")
    ELSE [kind |-> "loop", n |-> n, one |-> Tagged(n.t, ZInt(1)), i |-> 0,
          result |-> <<>>]

\* the loop condition: n
PowerSet_test(f) == ~ZIsZero(f.n)

\* one iteration: if (n & one) result.push(this.seed[i]); then n >>= one, i++
PowerSet_body(o, h, f) ==
    LET pushed == IF ~ZIsZero(JSAnd(f.n, f.one))
                  THEN f.result \o <<At(h[o.seed], f.i)>>
                  ELSE f.result
    IN  [f EXCEPT !.n = JSShr1(f.n), !.i = f.i + 1, !.result = pushed]

\* the test can no longer end the loop: n is -1, n >>= one leaves it -1 and
\* n & one is 1, so every pass from here pushes one more element and comes
\* back to the same test
Runaway(f) == f.n.neg /\ f.n.mag = <<1>>

\* how a runaway loop ends: result grows by one element a pass, so within
\* ArrayLimit - result.length passes a push fails; the runtime then throws
\* RangeError out of nth or, with no memory left, ends the process, and the
\* call neither returns nor throws
PushFailure(f) ==
    [kind |-> "push fails",
     within |-> ZSub(ArrayLimit, ZInt(Len(f.result))),
     outcomes |-> {"RangeError", "ended"}]

\* one pass of the loop from its test: the test fails and nth returns
\* result, or the body runs. A runaway loop is not followed further: it
\* leaves by its failing push
PowerSet_pass(o, h, f) ==
    IF ~PowerSet_test(f) THEN Return(f.result)
    ELSE IF Runaway(f) THEN PushFailure(f)
    ELSE PowerSet_body(o, h, f)

\* k passes of the loop one after the other, or those it makes until it is
\* left, taken half by half
RECURSIVE PowerSet_passes(_, _, _, _)
PowerSet_passes(o, h, f, k) ==
    IF f.kind # "loop" THEN f
    ELSE IF k = 1 THEN PowerSet_pass(o, h, f)
    ELSE PowerSet_passes(o, h, PowerSet_passes(o, h, f, k \div 2), k - k \div 2)

\* the passes after which the loop is left or runaway: n >>= one brings n
\* to 0 or to -1 within the bits of n, and one more pass tells which
PowerSet_most(f) == Width(f.n, f.n) + 1

\* the loop run to its end
PowerSet_run(o, h, f) == PowerSet_passes(o, h, f, PowerSet_most(f))

PowerSet_nth(o, h, n) ==
    LET f == PowerSet_enter(o, n)
    IN  IF f.kind = "throw" THEN f ELSE PowerSet_run(o, h, f)

\* ------------------------------------------------------------------------
\* _CBase: nth by variant, the common iterator and toArray
\* ------------------------------------------------------------------------

Nth(o, h, n) ==
    CASE o.kind = "Permutation"      -> Permutation_nth(o, h, n)
      [] o.kind = "Combination"      -> Combination_nth(o, h, n)
      [] o.kind = "BaseN"            -> BaseN_nth(o, h, n)
      [] o.kind = "PowerSet"         -> PowerSet_nth(o, h, n)
      [] o.kind = "CartesianProduct" -> CartesianProduct_nth(o, h, n)

\* one resumption of the generator, whose counter is i:
\* while (i < length) yield that.nth(i++). It yields what nth returns, or
\* the throw of nth comes out of it, or it ends
Iterator_next(o, h, i) ==
    IF ZLt(ZInt(i), o.length) THEN Nth(o, h, NumInt(i))
    ELSE [kind |-> "finished"]

\* [...this]: the generator resumed until it ends, the caller taking no step
\* in between; the array of the values yielded, or the first throw
Spread(o, h) ==
    LET n    == IF o.length.neg THEN 0 ELSE ZToInt(o.length)
        each == [i \in 1..n |-> Iterator_next(o, h, i - 1)]
        bad  == {i \in 1..n : each[i].kind = "throw"}
    IN  IF bad # {} THEN each[CHOOSE i \in bad : \A j \in bad : i <= j]
        ELSE Return([i \in 1..n |-> each[i].value])

\* toArray() { return [...this] }
toArray(o, h) == Spread(o, h)

\* ------------------------------------------------------------------------
\* Bounds of the model
\* ------------------------------------------------------------------------

\* seeds of Permutation and Combination have 1..MaxSeed elements
MaxSeed == 4

\* seeds of BaseN have 1..MaxBase elements, its size is 1..MaxDigits
MaxBase == 3

MaxDigits == 2

\* each factor of a CartesianProduct has 0..MaxFactor elements
MaxFactor == 3

\* small PowerSet seeds have 0..MaxPowerSeed elements
MaxPowerSeed == 2

\* the caller changes the arrays it passed at most MaxMut times
MaxMut == 1

\* the caller resumes an iterator while its counter is at most MaxYield
MaxYield == 4

\* permutation, combination and factorial are called with 0..MaxN
MaxN == 20

\* factoradic is called with 0..MaxValue and digit counts 0..MaxDigitCount
MaxValue == 30

MaxDigitCount == 4

\* ------------------------------------------------------------------------
\* The state: the arrays (heap) by reference, "a" and "b" held by the
\* caller, "s1" and "s2" the copies an object made; the arrays as they were
\* when the object was built (snap); the object; the caller's position
\* (pc), the PowerSet loop's variables (frame), the call and its outcome.
\* ------------------------------------------------------------------------

VARIABLES heap, snap, obj, pc, frame, call, ret, muts, iter

vars == <<heap, snap, obj, pc, frame, call, ret, muts, iter>>

Seed(n) == [i \in 1..n |-> i]

NoObj == [kind |-> "none"]

NoFrame == [kind |-> "none"]

NoCall == [op |-> "none"]

NoRet == [kind |-> "none"]

NoIter == [kind |-> "none"]

EmptyHeap == [a |-> <<>>, b |-> <<>>, s1 |-> <<>>, s2 |-> <<>>]

Init ==
    /\ heap = EmptyHeap
    /\ snap = EmptyHeap
    /\ obj = NoObj
    /\ pc = "idle"
    /\ frame = NoFrame
    /\ call = NoCall
    /\ ret = NoRet
    /\ muts = 0
    /\ iter = NoIter

\* the caller's position after a constructor call
Constructed(h, c, outcome) ==
    /\ obj = NoObj
    /\ heap' = h
    /\ snap' = h
    /\ obj' = IF outcome.kind = "return" THEN outcome.value ELSE NoObj
    /\ call' = c
    /\ ret' = IF outcome.kind = "return"
               THEN [kind |-> "return", object |-> outcome.value.kind]
               ELSE outcome
    /\ pc' = "done"
    /\ UNCHANGED <<frame, muts, iter>>

NewPermutation ==
    \E n \in 1..MaxSeed, given \in BOOLEAN, size \in -1..(MaxSeed + 1) :
        /\ pc = "idle"
        /\ ~given => size = 0
        /\ Constructed([EmptyHeap EXCEPT !.a = Seed(n), !.s1 = Seed(n)],
                       [op |-> "new", kind |-> "Permutation", given |-> given,
                        size |-> size],
                       Return(Permutation(Seed(n), size, "s1")))

NewCombination ==
    \E n \in 1..MaxSeed, given \in BOOLEAN, size \in -1..(MaxSeed + 1) :
        /\ pc = "idle"
        /\ ~given => size = 0
        /\ Constructed([EmptyHeap EXCEPT !.a = Seed(n), !.s1 = Seed(n)],
                       [op |-> "new", kind |-> "Combination", given |-> given,
                        size |-> size],
                       Combination(Seed(n), size, "s1"))

NewBaseN ==
    \E n \in 1..MaxBase, size \in 1..MaxDigits :
        /\ pc = "idle"
        /\ Constructed([EmptyHeap EXCEPT !.a = Seed(n), !.s1 = Seed(n)],
                    [op |-> "new", kind |-> "BaseN", given |-> TRUE, size |-> size],
                    BaseN(Seed(n), size, "s1"))

NewPowerSet ==
    \E n \in (0..MaxPowerSeed) \cup {WordBits, WordBits + 1} :
        /\ pc = "idle"
        /\ Constructed([EmptyHeap EXCEPT !.a = Seed(n)],
                    [op |-> "new", kind |-> "PowerSet", given |-> FALSE, size |-> 0],
                    Return(PowerSet(Seed(n), "a")))

\* the second array's elements differ from the first's
NewCartesianProduct ==
    \E m \in 0..MaxFactor, n \in 0..MaxFactor :
        LET a == Seed(m)
            b == [i \in 1..n |-> 10 + i]
        IN  /\ pc = "idle"
            /\ Constructed([a |-> a, b |-> b, s1 |-> a, s2 |-> b],
                        [op |-> "new", kind |-> "CartesianProduct", given |-> FALSE,
                         size |-> 0],
                        Return(CartesianProduct(<<a, b>>, <<"s1", "s2">>)))

\* the caller changes an array it passed to the constructor: overwrites its
\* last element, appends an element, or removes the last one
MutateInput ==
    /\ pc = "idle"
    /\ obj # NoObj
    /\ muts < MaxMut
    /\ \E r \in {"a", "b"} :
         /\ r = "b" => obj.kind = "CartesianProduct"
         /\ \/ /\ Len(heap[r]) > 0
               /\ heap' = [heap EXCEPT ![r][Len(heap[r])] = 0]
            \/ heap' = [heap EXCEPT ![r] = Append(@, 0)]
            \/ /\ Len(heap[r]) > 0
               /\ heap' = [heap EXCEPT ![r] = SubSeq(@, 1, Len(@) - 1)]
    /\ muts' = muts + 1
    /\ UNCHANGED <<snap, obj, pc, frame, call, ret, iter>>

\* the ranks the caller passes: every rank from -1 to length + 1 when the
\* object is small, else the ranks around 0, 2^31, 2^32 and length
EdgeRanks(length) ==
    {ZInt(-1), ZInt(0), ZInt(1), ZInt(2), ZInt(3)}
    \cup {ZAdd(Z(FALSE, MPow2(k)), ZInt(e)) : k \in {WordBits - 1, WordBits}, e \in {-1, 0, 1}}
    \cup {ZAdd(length, ZInt(e)) : e \in {-1, 0}}

Ranks(length) ==
    IF ZLe(length, ZInt(2^(MaxSeed + 3)))
    THEN {ZInt(r) : r \in -1..(ZToInt(length) + 1)}
    ELSE EdgeRanks(length)

\* obj.nth(rank) on a Permutation, Combination, BaseN or CartesianProduct
CallNth ==
    /\ pc = "idle"
    /\ iter = NoIter
    /\ obj.kind \in {"Permutation", "Combination", "BaseN", "CartesianProduct"}
    /\ \E t \in {"number", "bigint"}, z \in Ranks(obj.length) :
         /\ call' = [op |-> "nth", rank |-> Tagged(t, z)]
         /\ ret' = Nth(obj, heap, Tagged(t, z))
    /\ pc' = "done"
    /\ UNCHANGED <<heap, snap, obj, frame, muts, iter>>

\* obj.nth(rank) on a PowerSet: the range checks, then the loop
CallPowerSetNth ==
    /\ pc = "idle"
    /\ iter = NoIter
    /\ obj.kind = "PowerSet"
    /\ \E t \in {"number", "bigint"}, z \in Ranks(obj.length) :
         LET f == PowerSet_enter(obj, Tagged(t, z))
         IN  /\ call' = [op |-> "nth", rank |-> Tagged(t, z)]
             /\ IF f.kind = "throw"
                THEN /\ ret' = f
                     /\ pc' = "done"
                     /\ UNCHANGED frame
                ELSE /\ frame' = f
                     /\ pc' = "ps_test"
                     /\ UNCHANGED ret
    /\ UNCHANGED <<heap, snap, obj, muts, iter>>

\* for (...; n; ...): the loop ends and nth returns result, or the body runs
PowerSetTest ==
    /\ pc = "ps_test"
    /\ IF PowerSet_test(frame)
       THEN /\ pc' = "ps_body"
            /\ UNCHANGED <<frame, ret>>
       ELSE /\ pc' = "done"
            /\ ret' = Return(frame.result)
            /\ frame' = NoFrame
    /\ UNCHANGED <<heap, snap, obj, call, muts, iter>>

\* a runaway loop has been followed pass by pass as far as MaxFollowed
PowerSet_onward(f) == Runaway(f) /\ f.i >= MaxFollowed

\* if (n & one) result.push(this.seed[i]); n >>= one, i++
PowerSetBody ==
    /\ pc = "ps_body"
    /\ ~PowerSet_onward(frame)
    /\ frame' = PowerSet_body(obj, heap, frame)
    /\ pc' = "ps_test"
    /\ UNCHANGED <<heap, snap, obj, call, ret, muts, iter>>

\* the remaining passes of a runaway loop, taken together: each pushes one
\* more element, up to the push that fails, where the runtime throws
\* RangeError out of nth or ends the process
PowerSetPushFails ==
    /\ pc = "ps_body"
    /\ PowerSet_onward(frame)
    /\ \E how \in PowerSet_run(obj, heap, frame).outcomes :
         IF how = "RangeError"
         THEN /\ ret' = Throw("RangeError")
              /\ frame' = NoFrame
              /\ pc' = "done"
         ELSE /\ pc' = "ended"
              /\ UNCHANGED <<frame, ret>>
    /\ UNCHANGED <<heap, snap, obj, call, muts, iter>>

\* an outcome whose value is a list as the caller holds it: the array of
\* arrays of toArray, or the digits of factoradic, in the field values, apart
\* from the single array nth returns and the number a free function returns
\* in value
Listed(outcome) ==
    IF outcome.kind = "return"
    THEN [kind |-> "return", values |-> outcome.value]
    ELSE outcome

\* obj.toArray(), for the objects whose array the model can hold
CallToArray ==
    /\ pc = "idle"
    /\ iter = NoIter
    /\ obj # NoObj
    /\ ZLe(obj.length, ZInt(2^(MaxSeed + 3)))
    /\ call' = [op |-> "toArray"]
    /\ ret' = Listed(toArray(obj, heap))
    /\ pc' = "done"
    /\ UNCHANGED <<heap, snap, obj, frame, muts, iter>>

\* obj[Symbol.iterator](): the generator, its counter i at 0. A caller that
\* holds an iterator resumes it and changes its arrays
OpenIterator ==
    /\ pc = "idle"
    /\ obj # NoObj
    /\ iter = NoIter
    /\ iter' = [kind |-> "generator", i |-> 0, open |-> TRUE]
    /\ UNCHANGED <<heap, snap, obj, pc, frame, call, ret, muts>>

\* iter.next(): the generator runs to its next yield, to its end or to a
\* throw; after its end or a throw it stays ended
CallNext ==
    /\ pc = "idle"
    /\ iter # NoIter
    /\ iter.i <= MaxYield
    /\ call' = [op |-> "next", i |-> iter.i]
    /\ ret' = IF iter.open THEN Iterator_next(obj, heap, iter.i)
              ELSE [kind |-> "finished"]
    /\ iter' = [iter EXCEPT !.i = IF ret'.kind = "return" THEN @ + 1 ELSE @,
                            !.open = (ret'.kind = "return")]
    /\ pc' = "done"
    /\ UNCHANGED <<heap, snap, obj, frame, muts>>

\* the caller takes the outcome of its call
Consume ==
    /\ pc = "done"
    /\ pc' = "idle"
    /\ call' = NoCall
    /\ ret' = NoRet
    /\ UNCHANGED <<heap, snap, obj, frame, muts, iter>>

Next ==
    \/ NewPermutation
    \/ NewCombination
    \/ NewBaseN
    \/ NewPowerSet
    \/ NewCartesianProduct
    \/ MutateInput
    \/ CallNth
    \/ CallPowerSetNth
    \/ PowerSetTest
    \/ PowerSetBody
    \/ PowerSetPushFails
    \/ CallToArray
    \/ OpenIterator
    \/ CallNext
    \/ Consume

Spec == Init /\ [][Next]_vars

\* ------------------------------------------------------------------------
\* The free functions, called on their own
\* ------------------------------------------------------------------------

\* a free function is called on its own, before any object is built
Called(c, outcome) ==
    /\ obj = NoObj
    /\ call' = c
    /\ ret' = outcome
    /\ pc' = "done"
    /\ UNCHANGED <<heap, snap, obj, frame, muts, iter>>

CallPermutation ==
    \E n \in 0..MaxN, k \in 0..MaxN :
        /\ pc = "idle"
        /\ Called([op |-> "permutation", n |-> n, k |-> k],
                  Return(permutation(NumInt(n), NumInt(k))))

CallCombination ==
    \E n \in 0..MaxN, k \in 0..MaxN :
        /\ pc = "idle"
        /\ Called([op |-> "combination", n |-> n, k |-> k],
                  combination(NumInt(n), NumInt(k)))

CallFactorial ==
    \E n \in 0..MaxN :
        /\ pc = "idle"
        /\ Called([op |-> "factorial", n |-> n, k |-> n],
                  Return(factorial(NumInt(n))))

\* the values factoradic is called with: the small ones, and the factorials
\* up to MaxN! with their neighbours
FactoradicValues ==
    {ZInt(v) : v \in 0..MaxValue}
    \cup {ZAdd(factorial(NumInt(k)), ZInt(e)) : k \in 1..MaxN, e \in {-1, 0, 1}}

\* factoradic(value) and factoradic(value, l); l = 0 is the omitted digit
\* count. An explicit digit count is passed with the small values.
CallFactoradic ==
    \E t \in {"number", "bigint"}, z \in FactoradicValues, l \in 0..MaxDigitCount :
        /\ pc = "idle"
        /\ l > 0 => ZLe(z, ZInt(MaxValue))
        /\ t = "number" => ZLe(z, MAX_SAFE_INTEGER)
        /\ Called([op |-> "factoradic", value |-> Tagged(t, z), l |-> l],
                  Listed(Return(factoradic(Tagged(t, z), l))))

NextArith ==
    \/ CallPermutation
    \/ CallCombination
    \/ CallFactorial
    \/ CallFactoradic
    \/ Consume

SpecArith == Init /\ [][NextArith]_vars

\* ------------------------------------------------------------------------
\* Every operation, with calls that run on
\* ------------------------------------------------------------------------

NextAll ==
    \/ Next
    \/ CallPermutation
    \/ CallCombination
    \/ CallFactorial
    \/ CallFactoradic

\* a step of the loop of PowerSet.nth, whichever it is: from the test to the
\* body or out of the loop, from the body back to the test, out by a throw,
\* or to the end of the process
PowerSetStep ==
    /\ pc \in {"ps_test", "ps_body"}
    /\ pc' \in {"ps_test", "ps_body", "done", "ended"}
    /\ pc' # pc

\* the loop of PowerSet.nth runs on once entered: JavaScript runs a call
\* as far as it goes
SpecFair == Init /\ [][NextAll]_vars /\ WF_pc(PowerSetStep)

\* ------------------------------------------------------------------------
\* Reference definitions for the properties
\* ------------------------------------------------------------------------

\* 1 * 2 * .. * n from s = [i, f], f = i!
RECURSIVE FactLoop(_, _)
FactLoop(n, s) ==
    IF s.i = n THEN s.f
    ELSE FactLoop(n, [i |-> s.i + 1, f |-> MMulSmall(s.f, s.i + 1)])

\* n! as a magnitude
FactM(n) == FactLoop(n, [i |-> 0, f |-> <<1>>])

\* the sum so far of d[i] * i! from s = [i, f, sum], f = i!
RECURSIVE FactoradicSumLoop(_, _)
FactoradicSumLoop(d, s) ==
    IF s.i > Len(d) - 1 THEN s.sum
    ELSE FactoradicSumLoop(d, [i |-> s.i + 1, f |-> MMulSmall(s.f, s.i + 1),
                               sum |-> MAdd(s.sum, MMulSmall(s.f, d[s.i + 1]))])

\* the sum of d[i] * i! over the positions i = 1 .. Len(d) - 1
FactoradicSum(d) == FactoradicSumLoop(d, [i |-> 1, f |-> <<1>>, sum |-> <<>>])

\* the entries lo .. hi of the row after prev in Pascal's triangle
RECURSIVE PascalNext(_, _, _)
PascalNext(prev, lo, hi) ==
    IF lo = hi
    THEN <<MAdd(IF lo > 1 THEN prev[lo - 1] ELSE <<>>,
                IF lo <= Len(prev) THEN prev[lo] ELSE <<>>)>>
    ELSE LET mid == (lo + hi) \div 2
         IN  PascalNext(prev, lo, mid) \o PascalNext(prev, mid + 1, hi)

\* the rows of Pascal's triangle from s = [i, row] down to row n
RECURSIVE PascalLoop(_, _)
PascalLoop(n, s) ==
    IF s.i = n THEN s.row
    ELSE PascalLoop(n, [i |-> s.i + 1,
                        row |-> PascalNext(s.row, 1, Len(s.row) + 1)])

\* row n of Pascal's triangle: C(n, 0) .. C(n, n) as magnitudes
PascalRow(n) == PascalLoop(n, [i |-> 0, row |-> << <<1>> >>])

Binomial(n, k) == PascalRow(n)[k + 1]

\* ------------------------------------------------------------------------
\* C4
\* ------------------------------------------------------------------------

\* C4: for 0 <= k <= n, combination(n, k) returns the exact binomial
\* coefficient C(n, k) = P(n, k) / k!, as a Number when it is at most
\* Number.MAX_SAFE_INTEGER and as a BigInt otherwise (hence the same value
\* as combination(n, n - k)).
C4_CombinationExact ==
    (pc = "done" /\ call.op = "combination" /\ call.k <= call.n)
        => ret = Return(Downcast(Big(Z(FALSE, Binomial(call.n, call.k)))))

\* ------------------------------------------------------------------------
\* C9
\* ------------------------------------------------------------------------

FactoradicCase ==
    /\ pc = "done"
    /\ call.op = "factoradic"
    /\ call.l > 0 => MCmp(call.value.mag, FactM(call.l + 1)) < 0

\* C9: for value >= 0, with the digit count omitted or an explicit digit
\* count l >= 1 such that value < (l+1)!, the digits d returned satisfy
\* d[0] = 0, 0 <= d[i] <= i, and value = sum of d[i] * i!; an explicit digit
\* count gives exactly l + 1 entries, and an inferred width gives a non-zero
\* highest digit whenever value > 0.
C9_FactoradicDigits ==
    FactoradicCase =>
        /\ ret.kind = "return"
        /\ LET d == ret.values
           IN  /\ Len(d) >= 1
               /\ d[1] = 0
               /\ \A i \in 0..(Len(d) - 1) : 0 <= d[i + 1] /\ d[i + 1] <= i
               /\ FactoradicSum(d) = call.value.mag
               /\ call.l > 0 => Len(d) = call.l + 1
               /\ (call.l = 0 /\ call.value.mag # <<>>) => d[Len(d)] # 0

\* a factorial beyond 2^53 decomposed at its inferred width, and a padded
\* decomposition at an explicit digit count
C9_Witness ==
    /\ FactoradicCase
    /\ \/ /\ call.l = 0
          /\ call.value.mag = FactM(19)
          /\ Len(ret.values) = 20
          /\ ret.values[20] = 1
       \/ /\ call.l = 4
          /\ call.value = NumInt(5)
          /\ ret.values = <<0, 1, 2, 0, 0>>

\* ------------------------------------------------------------------------
\* Properties of the objects
\* ------------------------------------------------------------------------

Range(q) == {q[i] : i \in 1..Len(q)}

\* the ordered selections of size distinct elements of seed
Selections(seed, size) ==
    {q \in [1..size -> Range(seed)] : \A i, j \in 1..size : i # j => q[i] # q[j]}

\* the position of x in seed (0 when it is not an element)
Pos(seed, x) ==
    IF \E i \in 1..Len(seed) : seed[i] = x
    THEN CHOOSE i \in 1..Len(seed) : seed[i] = x
    ELSE 0

\* q lists elements of seed in the order they have in seed
InSeedOrder(seed, q) ==
    /\ \A i \in 1..Len(q) : Pos(seed, q[i]) > 0
    /\ \A i, j \in 1..Len(q) : i < j => Pos(seed, q[i]) < Pos(seed, q[j])

NoRepeats(arr) == \A i, j \in 1..Len(arr) : i # j => arr[i] # arr[j]

InRange(o, n) == ~ZLt(n, ZInt(0)) /\ ZLt(n, o.length)

Done(op) == pc = "done" /\ call.op = op

\* ------------------------------------------------------------------------
\* C1
\* ------------------------------------------------------------------------

\* C1: for a Permutation over N distinct elements with 1 <= size <= N,
\* length is N!/(N-size)! and nth maps the ranks 0 .. length-1 one-to-one
\* onto the ordered selections of size distinct seed elements: toArray, the
\* list of nth(0) .. nth(length-1), has no repeats and holds exactly those
\* selections, and nth of every rank in range (Number or BigInt) is one.
C1_PermutationBijection ==
    /\ (Done("toArray") /\ obj.kind = "Permutation") =>
          /\ ret.kind = "return"
          /\ obj.length = NumInt(Cardinality(Selections(heap[obj.seed], obj.size)))
          /\ Len(ret.values) = ZToInt(obj.length)
          /\ NoRepeats(ret.values)
          /\ Range(ret.values) = Selections(heap[obj.seed], obj.size)
    /\ (Done("nth") /\ obj.kind = "Permutation" /\ InRange(obj, call.rank)) =>
          /\ ret.kind = "return"
          /\ ret.value \in Selections(heap[obj.seed], obj.size)

\* the six 2-selections of a 3-element seed, listed by toArray
C1_Witness ==
    /\ Done("toArray")
    /\ obj.kind = "Permutation"
    /\ Len(heap[obj.seed]) = 3
    /\ obj.size = 2
    /\ ret.kind = "return"
    /\ Len(ret.values) = 6
    /\ ret.values[6] = <<3, 2>>

\* ------------------------------------------------------------------------
\* C2
\* ------------------------------------------------------------------------

\* C2: for a Combination over N distinct elements with 1 <= size <= N,
\* every nth(r), r in [0, length), returns size elements in the order they
\* have in the seed, and over all ranks the element sets are exactly the
\* size-subsets of the seed, each for exactly one rank.
C2_CombinationSubsets ==
    (Done("toArray") /\ obj.kind = "Combination" /\ obj.size >= 1) =>
        /\ ret.kind = "return"
        /\ LET seed == heap[obj.perm.seed]
               arr  == ret.values
           IN  /\ \A i \in 1..Len(arr) :
                     Len(arr[i]) = obj.size /\ InSeedOrder(seed, arr[i])
               /\ {Range(arr[i]) : i \in 1..Len(arr)}
                     = {u \in SUBSET Range(seed) : Cardinality(u) = obj.size}
               /\ \A i, j \in 1..Len(arr) : i # j => Range(arr[i]) # Range(arr[j])

\* ------------------------------------------------------------------------
\* C3
\* ------------------------------------------------------------------------

\* C3: on each of the five variants, nth(rank) with rank < 0 or
\* rank >= length fails with a range error and returns no sequence.
C3_RangeError ==
    (Done("nth") /\ ~InRange(obj, call.rank)) => ret = Throw("RangeError")

\* ------------------------------------------------------------------------
\* C5
\* ------------------------------------------------------------------------

\* the arrays as they were when the object was built
AtConstruction == [heap EXCEPT !.a = snap.a, !.b = snap.b]

\* C5: each object holds its own copy of its input: whatever the caller
\* does to the arrays it passed, nth, toArray and the iterator give what
\* they give on the arrays as they were at construction.
C5_OwnCopy ==
    /\ (Done("nth") /\ ret.kind = "return")
          => ret = Nth(obj, AtConstruction, call.rank)
    /\ (Done("next") /\ ret.kind = "return")
          => ret = Iterator_next(obj, AtConstruction, call.i)
    /\ (Done("toArray") /\ ret.kind = "return")
          => ret = Listed(toArray(obj, AtConstruction))

\* ------------------------------------------------------------------------
\* C6
\* ------------------------------------------------------------------------

\* seed[i] for the bit positions i set in the magnitude m, ascending from i
RECURSIVE BitSelect(_, _, _)
BitSelect(seed, m, i) ==
    IF i >= 15 * Len(m) THEN <<>>
    ELSE (IF MBit(m, i) = 1 THEN <<At(seed, i)>> ELSE <<>>)
         \o BitSelect(seed, m, i + 1)

\* C6: for a PowerSet and every rank r in [0, 2^s), Number or BigInt,
\* nth(r) is the list of seed[i] for the bit positions i set in r, in
\* ascending i, also for Number ranks of 2^31 and above.
C6_PowerSetBits ==
    (Done("nth") /\ obj.kind = "PowerSet" /\ InRange(obj, call.rank))
        => ret = Return(BitSelect(heap[obj.seed], call.rank.mag, 0))

\* ------------------------------------------------------------------------
\* C7
\* ------------------------------------------------------------------------

CartesianCase ==
    /\ Done("toArray")
    /\ obj.kind = "CartesianProduct"
    /\ heap[obj.seed[1]] # <<>>
    /\ heap[obj.seed[2]] # <<>>

\* length is |a|*|b| and toArray lists every pair exactly once
CartesianEveryPairOnce ==
    LET a == heap[obj.seed[1]]
        b == heap[obj.seed[2]]
    IN  /\ ret.kind = "return"
        /\ obj.length = NumInt(Len(a) * Len(b))
        /\ Len(ret.values) = Len(a) * Len(b)
        /\ NoRepeats(ret.values)
        /\ Range(ret.values) = {<<x, y>> : x \in Range(a), y \in Range(b)}

\* C7 (as claimed): for CartesianProduct(a, b) with non-empty a and b,
\* length is |a|*|b| and nth enumerates every pair exactly once, the first
\* factor varying slowest and the last factor fastest.
C7_FirstFactorSlowest ==
    CartesianCase =>
        /\ CartesianEveryPairOnce
        /\ LET a == heap[obj.seed[1]]
               b == heap[obj.seed[2]]
           IN  \A r \in 0..(Len(ret.values) - 1) :
                   ret.values[r + 1] = <<a[(r \div Len(b)) + 1], b[(r % Len(b)) + 1]>>

\* C7 (amended): for CartesianProduct(a, b) with non-empty a and b, length
\* is |a|*|b| and nth enumerates every pair exactly once, the first factor
\* varying fastest and the last factor slowest: nth(r) is the pair of
\* a[r mod |a|] and b[floor(r / |a|)].
C7_FirstFactorFastest ==
    CartesianCase =>
        /\ CartesianEveryPairOnce
        /\ LET a == heap[obj.seed[1]]
               b == heap[obj.seed[2]]
           IN  \A r \in 0..(Len(ret.values) - 1) :
                   ret.values[r + 1] = <<a[(r % Len(a)) + 1], b[(r \div Len(a)) + 1]>>

\* a 2 x 3 product: rank 1 moves on in the first factor, rank 2 in the second
C7_Witness ==
    /\ CartesianCase
    /\ Len(heap[obj.seed[1]]) = 2
    /\ Len(heap[obj.seed[2]]) = 3
    /\ ret.kind = "return"
    /\ ret.values[2] = <<2, 11>>
    /\ ret.values[3] = <<1, 12>>

\* ------------------------------------------------------------------------
\* C8
\* ------------------------------------------------------------------------

\* a Permutation or Combination constructed with a size given outside [1, N]
SizeOutOfRange ==
    /\ Done("new")
    /\ call.kind \in {"Permutation", "Combination"}
    /\ call.given
    /\ (call.size <= 0 \/ call.size > Len(snap.a))

\* C8 (as claimed): constructing a Permutation or a Combination with an
\* explicitly given size outside [1, N] fails with a range error and
\* produces no object.
C8_SizeRangeError ==
    SizeOutOfRange => (ret = Throw("RangeError") /\ obj = NoObj)

\* C8 (amended): constructing a Permutation or a Combination with an
\* explicitly given size outside [1, N] does not fail: it produces the
\* object of size N, the one built when size is omitted, whose length is N!
\* for a Permutation and 1 for a Combination.
C8_SizeDefaultsToSeedLength ==
    SizeOutOfRange =>
        /\ ret.kind = "return"
        /\ obj.kind = call.kind
        /\ obj.size = Len(snap.a)
        /\ obj.length = IF obj.kind = "Permutation"
                        THEN Downcast(Big(Z(FALSE, FactM(Len(snap.a)))))
                        ELSE NumInt(1)

\* a Combination of 3 elements asked for with size 4
C8_Witness ==
    /\ SizeOutOfRange
    /\ call.kind = "Combination"
    /\ Len(snap.a) = 3
    /\ call.size = 4
    /\ obj.kind = "Combination"
    /\ obj.size = 3

\* ------------------------------------------------------------------------
\* C10
\* ------------------------------------------------------------------------

\* C10: every operation terminates: a call of nth on any of the five
\* classes, or of permutation, combination, factorial or factoradic, once
\* made, returns or throws.
C10_Terminates ==
    [](call.op \in {"nth", "permutation", "combination", "factorial", "factoradic"}
         => <>(pc = "done"))

====
